---- MODULE Spec2Model ----
(***************************************************************************)
(* CausalPy experiment orchestrators: PrePostFit (InterruptedTimeSeries,   *)
(* SyntheticControl) of causalpy/experiments.py and PrePostNEGD of         *)
(* causalpy/expt_prepostnegd.py.                                           *)
(*                                                                         *)
(* A constructor is one synchronous call: it is one action, built as the   *)
(* composition of the constructor's statements in source order.  Each      *)
(* statement is an operator on a frame s = [self, model, calls, loc, err]; *)
(* once err is set (an exception is propagating) the remaining statements  *)
(* leave the frame alone.  calls is the log of the calls made on the       *)
(* caller-supplied model object, in call order.                            *)
(***************************************************************************)
EXTENDS Integers, Sequences, FiniteSets, TLC

VARIABLES inp,      \* the arguments of the call being modelled
          self,     \* the instance's attributes (its __dict__)
          model,    \* the caller-supplied model object
          calls,    \* calls made on the model object, in order
          loc,      \* locals of the constructor that the claims speak about
          err,      \* the exception that left the last call, or NoError
          out,      \* lines printed so far
          ret,      \* value returned by the last method call
          exposed,  \* the caller holds a reference to the instance
          pc        \* "new", then "constructed" or "failed"; after a method
                    \* call on the instance, "<method>_returned" or "<method>_raised"

vars == <<inp, self, model, calls, loc, err, out, ret, exposed, pc>>

----------------------------------------------------------------------------
(* Bounds of the model. *)

MaxRows == 3
MaxLabels == 3

(* Values the inputs are drawn from. *)
IndexVals == {0, 1}
CoefVals == {0, 1}
YVals == {0, 1}
GVals == {0, 1}

NoError == "None"
None == "None"
Unset == "<unset>"

----------------------------------------------------------------------------
(* Generic helpers. *)

RECURSIVE SumSeq(_)
SumSeq(q) == IF q = <<>> THEN 0 ELSE q[1] + SumSeq(Tail(q))

RECURSIVE Flatten(_)
Flatten(qq) == IF qq = <<>> THEN <<>> ELSE qq[1] \o Flatten(Tail(qq))

SeqsUpTo(S, n) == UNION {[1..k -> S] : k \in 0..n}

Range(q) == {q[i] : i \in DOMAIN q}

\* np.arange(n)
arange(n) == [i \in 1..n |-> i - 1]

\* Python's `a in b` on strings
StrIn(a, b) == \E i \in 1..(Len(b) - Len(a) + 1) : SubSeq(b, i, i + Len(a) - 1) = a

----------------------------------------------------------------------------
(* Classes: attributes and methods each class body defines, and the order  *)
(* in which attribute lookup visits the classes.                           *)

ClassDict(cls) ==
    CASE cls = "ExperimentalDesign" ->
           [model |-> None, expt_type |-> None,
            init |-> "method", idata |-> "property"]
      [] cls = "PrePostFitDataValidator" ->
           [input_validation |-> "method"]
      [] cls = "PrePostFit" ->
           [init |-> "method", plot |-> "method", print_coefficients |-> "method"]
      [] cls = "InterruptedTimeSeries" ->
           [expt_type |-> "Interrupted Time Series"]
      [] cls = "SyntheticControl" ->
           [expt_type |-> "SyntheticControl"]
      [] cls = "PrePostNEGD" ->
           [init |-> "method", input_validation |-> "method",
            get_treatment_effect_coeff |-> "method",
            causal_impact_summary_stat |-> "method",
            plot |-> "method", summary |-> "method"]

MRO(cls) ==
    CASE cls = "ExperimentalDesign" -> <<"ExperimentalDesign">>
      [] cls = "PrePostFit" ->
           <<"PrePostFit", "ExperimentalDesign", "PrePostFitDataValidator">>
      [] cls = "InterruptedTimeSeries" ->
           <<"InterruptedTimeSeries", "PrePostFit", "ExperimentalDesign",
             "PrePostFitDataValidator">>
      [] cls = "SyntheticControl" ->
           <<"SyntheticControl", "PrePostFit", "ExperimentalDesign",
             "PrePostFitDataValidator">>
      [] cls = "PrePostNEGD" -> <<"PrePostNEGD", "ExperimentalDesign">>

\* type(obj).<name>: the first class of the MRO that defines it
RECURSIVE LookupIn(_, _)
LookupIn(mro, name) ==
    IF mro = <<>> THEN Unset
    ELSE IF name \in DOMAIN ClassDict(mro[1]) THEN ClassDict(mro[1])[name]
    ELSE LookupIn(Tail(mro), name)

ClassAttr(cls, name) == LookupIn(MRO(cls), name)

\* obj.<name>: the instance's own attribute first, then the class's
GetAttr(obj, name) ==
    IF name \in DOMAIN obj /\ obj[name] # Unset THEN obj[name]
    ELSE ClassAttr(obj.cls, name)

HasAttr(obj, name) == GetAttr(obj, name) # Unset

----------------------------------------------------------------------------
(* The formula / design-matrix builder (patsy).  A formula is its text,    *)
(* its outcome column and its right-hand terms, intercept first.  A term   *)
(* is [kind, var, var2] with kind "intercept", "num" (a numeric column),   *)
(* "cat" (C(var), treatment-coded against its first level) or "cat:num"    *)
(* (the interaction C(var):var2).  The design info records the terms and,  *)
(* for every categorical column, the levels seen when it was built.        *)
(* Numbers of a frame are held in units of 1/unit (unit = 1 for observed   *)
(* data), so that a grid of fractions stays in the integers.               *)

Term(kind, var, var2) == [kind |-> kind, var |-> var, var2 |-> var2]

RECURSIVE SortedSeq(_)
SortedSeq(S) ==
    IF S = {} THEN <<>>
    ELSE LET m == CHOOSE x \in S : \A y \in S : x <= y
         IN  <<m>> \o SortedSeq(S \ {m})

CatVars(terms) ==
    {terms[i].var : i \in {k \in DOMAIN terms : terms[k].kind \in {"cat", "cat:num"}}}

\* the levels of a categorical column, in sorted order, as observed in data
ObservedLevels(data, var) == SortedSeq({data[i][var] : i \in DOMAIN data})

DesignInfo(terms, data) ==
    [terms |-> terms,
     levels |-> [v \in CatVars(terms) |-> ObservedLevels(data, v)]]

CatLabel(var, level) == "C(" \o var \o ")[T." \o ToString(level) \o "]"

TermColumns(t, info) ==
    CASE t.kind = "intercept" -> <<"Intercept">>
      [] t.kind = "num" -> <<t.var>>
      [] t.kind = "cat" ->
           LET lv == info.levels[t.var]
           IN  [k \in 1..(Len(lv) - 1) |-> CatLabel(t.var, lv[k + 1])]
      [] t.kind = "cat:num" ->
           LET lv == info.levels[t.var]
           IN  [k \in 1..(Len(lv) - 1) |-> CatLabel(t.var, lv[k + 1]) \o ":" \o t.var2]

\* design_info.column_names
column_names(info) ==
    Flatten([k \in DOMAIN info.terms |-> TermColumns(info.terms[k], info)])

TermValues(t, info, row, unit) ==
    CASE t.kind = "intercept" -> <<unit>>
      [] t.kind = "num" -> <<row[t.var]>>
      [] t.kind = "cat" ->
           LET lv == info.levels[t.var]
           IN  [k \in 1..(Len(lv) - 1) |->
                  IF row[t.var] = lv[k + 1] * unit THEN unit ELSE 0]
      [] t.kind = "cat:num" ->
           LET lv == info.levels[t.var]
           IN  [k \in 1..(Len(lv) - 1) |->
                  IF row[t.var] = lv[k + 1] * unit THEN row[t.var2] ELSE 0]

DesignRow(info, row, unit) ==
    Flatten([k \in DOMAIN info.terms |-> TermValues(info.terms[k], info, row, unit)])

\* a row is encodable when each categorical value is a level the info knows
Encodable(info, row, unit) ==
    \A v \in DOMAIN info.levels :
        \E k \in DOMAIN info.levels[v] : row[v] = info.levels[v][k] * unit

\* patsy.build_design_matrices([info], data): the info is reapplied, never rebuilt
build_design_matrix(info, data, unit) ==
    IF \A i \in DOMAIN data : Encodable(info, data[i], unit)
    THEN [ok |-> TRUE,
          design_info |-> info,
          matrix |-> [i \in DOMAIN data |-> DesignRow(info, data[i], unit)]]
    ELSE [ok |-> FALSE, design_info |-> info, matrix |-> <<>>]

\* patsy.dmatrices(formula, data): builds the info from data, then encodes data
dmatrices(formula, data) ==
    LET yinfo == DesignInfo(<<Term("num", formula.outcome, "")>>, data)
        xinfo == DesignInfo(formula.terms, data)
    IN  [y |-> build_design_matrix(yinfo, data, 1),
         X |-> build_design_matrix(xinfo, data, 1)]

\* m[:, 0]
Column0(m) == [i \in DOMAIN m |-> m[i][1]]

----------------------------------------------------------------------------
(* The model object: the regression backends are collaborators.  fit       *)
(* leaves a coefficient per covariate column (the weight w stands for      *)
(* whatever the estimator finds), predict is the linear predictor.         *)

NoCoords == [given |-> FALSE]

Coords(coeffs, obs_indx) == [given |-> TRUE, coeffs |-> coeffs, obs_indx |-> obs_indx]

Call(op, args) == [op |-> op, args |-> args]

NoIdata == [coeffs |-> <<>>, beta |-> <<>>]

NewModel(kind) == [kind |-> kind, fitted |-> FALSE, coef |-> <<>>, idata |-> NoIdata]

IsBayesian(m) == m.kind = "pymc"

IsScikitLearn(m) == m.kind = "sklearn"

\* with coords (a Bayesian model) the fit also leaves idata: the posterior
\* of beta, here one draw per coefficient, named by coords["coeffs"]
model_fit(m, X, coords, w) ==
    LET coef == IF X = <<>> THEN <<>> ELSE [j \in DOMAIN X[1] |-> w]
    IN  [m EXCEPT !.fitted = TRUE,
                  !.coef = coef,
                  !.idata = IF coords.given
                            THEN [coeffs |-> coords.coeffs,
                                  beta |-> [j \in DOMAIN coef |-> <<coef[j]>>]]
                            ELSE NoIdata]

Dot(row, coef) ==
    SumSeq([j \in DOMAIN row |-> row[j] * (IF j \in DOMAIN coef THEN coef[j] ELSE 0)])

model_predict(m, X) == [i \in DOMAIN X |-> Dot(X[i], m.coef)]

\* a goodness-of-fit scalar: here the number of rows predicted exactly
model_score(m, X, y) ==
    Cardinality({i \in DOMAIN X : model_predict(m, X)[i] = y[i][1]})

\* elementwise observed - predicted
calculate_impact(y_true, y_pred) == [i \in DOMAIN y_pred |-> y_true[i] - y_pred[i]]

\* running sum in index order
calculate_cumulative_impact(impact) ==
    [i \in DOMAIN impact |-> SumSeq(SubSeq(impact, 1, i))]

----------------------------------------------------------------------------
(* Frames and attribute assignment. *)

NewObject(cls) == [cls |-> cls]

\* self.<name> = v
SetAttr(obj, name, v) == (name :> v) @@ obj

NewFrame(cls, m) ==
    [self |-> NewObject(cls), model |-> m, calls |-> <<>>,
     loc |-> <<>>, err |-> NoError]

Raised(s) == s.err # NoError

Raise(s, e) == [s EXCEPT !.err = e]

Assign(s, name, v) == [s EXCEPT !.self = SetAttr(s.self, name, v)]

Local(s, name, v) == [s EXCEPT !.loc = (name :> v) @@ s.loc]

Record(s, c) == [s EXCEPT !.calls = Append(s.calls, c)]

----------------------------------------------------------------------------
(* ExperimentalDesign.__init__ *)

ExperimentalDesign_init(s, m) ==
    LET s1 == IF m.kind # "NoneType" THEN Assign(s, "model", "arg") ELSE s
    IN  IF GetAttr(s1.self, "model") = None
        THEN Raise(s1, "ValueError: fitting_model not set or passed.")
        ELSE s1

----------------------------------------------------------------------------
(* PrePostFit.__init__, statement by statement. *)

\* PrePostFitDataValidator._input_validation: the data is non-empty and the
\* treatment time is comparable to the index
PrePostFit_input_validation(s, data, treatment_time) ==
    IF Raised(s) THEN s
    ELSE IF data = <<>> \/ treatment_time.kind # "int"
         THEN Raise(s, "DataException")
         ELSE s

\* data[data.index < treatment_time]
datapre_of(data, treatment_time) ==
    LET pre(r) == r.index < treatment_time.v IN SelectSeq(data, pre)

\* variant: the boundary row is dropped (> for >=)
datapost_strict(data, treatment_time) ==
    LET post(r) == r.index > treatment_time.v IN SelectSeq(data, post)

\* data[data.index >= treatment_time]
datapost_of(data, treatment_time) ==
    LET post(r) == r.index >= treatment_time.v IN SelectSeq(data, post)

PrePostFit_split(s, data, treatment_time) ==
    IF Raised(s) THEN s
    ELSE LET s1 == Assign(s, "treatment_time", treatment_time)
             s2 == Assign(s1, "expt_type", "Pre-Post Fit")
             s3 == Assign(s2, "datapre", datapre_of(data, treatment_time))
         IN  Assign(s3, "datapost", datapost_of(data, treatment_time))

\* y, X = dmatrices(formula, self.datapre) and the attributes taken from them
PrePostFit_design_pre(s, formula) ==
    IF Raised(s) THEN s
    ELSE LET s0 == Assign(s, "formula", formula)
             d  == dmatrices(formula, s.self.datapre)
             s1 == Assign(s0, "outcome_variable_name",
                          column_names(d.y.design_info)[1])
             s2 == Assign(s1, "y_design_info", d.y.design_info)
             s3 == Assign(s2, "x_design_info", d.X.design_info)
             s4 == Assign(s3, "labels", column_names(d.X.design_info))
             s5 == Assign(s4, "pre_y", d.y.matrix)
         IN  Assign(s5, "pre_X", d.X.matrix)

\* variant: the formula is applied afresh to datapost
post_matrices_fresh(obj) == dmatrices(obj.formula, obj.datapost)

\* (new_y, new_x) = build_design_matrices([y_design_info, x_design_info], datapost)
post_matrices(obj) ==
    [y |-> build_design_matrix(obj.y_design_info, obj.datapost, 1),
     X |-> build_design_matrix(obj.x_design_info, obj.datapost, 1)]

PrePostFit_design_post(s) ==
    IF Raised(s) THEN s
    ELSE LET new == post_matrices(s.self)
         IN  IF ~new.y.ok \/ ~new.X.ok
             THEN Raise(s, "PatsyError")
             ELSE LET s1 == Local(s, "new_x_columns", column_names(new.X.design_info))
                      s2 == Assign(s1, "post_X", new.X.matrix)
                  IN  Assign(s2, "post_y", new.y.matrix)

\* variant: the model is fitted to all the rows, pre and post
fit_args_all(obj, m) ==
    IF IsBayesian(m)
    THEN [X |-> obj.pre_X \o obj.post_X, y |-> obj.pre_y \o obj.post_y,
          coords |-> Coords(obj.labels, arange(Len(obj.pre_X) + Len(obj.post_X)))]
    ELSE [X |-> obj.pre_X \o obj.post_X, y |-> obj.pre_y \o obj.post_y,
          coords |-> NoCoords]

\* the arguments of self.model.fit
fit_args(obj, m) ==
    IF IsBayesian(m)
    THEN [X |-> obj.pre_X, y |-> obj.pre_y,
          coords |-> Coords(obj.labels, arange(Len(obj.pre_X)))]
    ELSE [X |-> obj.pre_X, y |-> obj.pre_y, coords |-> NoCoords]

PrePostFit_fit(s, w) ==
    IF Raised(s) THEN s
    ELSE LET a == fit_args(s.self, s.model)
         IN  [Record(s, Call("fit", a)) EXCEPT !.model = model_fit(s.model, a.X, a.coords, w)]

PrePostFit_score(s) ==
    IF Raised(s) THEN s
    ELSE LET a == [X |-> s.self.pre_X, y |-> s.self.pre_y]
         IN  Assign(Record(s, Call("score", a)), "score",
                    model_score(s.model, a.X, a.y))

PrePostFit_predict(s) ==
    IF Raised(s) THEN s
    ELSE LET s1 == Assign(Record(s, Call("predict", [X |-> s.self.pre_X])),
                          "pre_pred", model_predict(s.model, s.self.pre_X))
         IN  Assign(Record(s1, Call("predict", [X |-> s1.self.post_X])),
                    "post_pred", model_predict(s1.model, s1.self.post_X))

\* the arguments of the two calculate_impact calls
pre_impact_args(obj) == [y_true |-> Column0(obj.pre_y), y_pred |-> obj.pre_pred]

post_impact_args(obj) == [y_true |-> Column0(obj.post_y), y_pred |-> obj.post_pred]

\* variant: the running sum is taken over pre_impact
cumulative_of_pre_impact(obj) == [impact |-> obj.pre_impact]

\* the argument of calculate_cumulative_impact
cumulative_impact_args(obj) == [impact |-> obj.post_impact]

PrePostFit_impact(s) ==
    IF Raised(s) THEN s
    ELSE LET a1 == pre_impact_args(s.self)
             s1 == Assign(Record(s, Call("calculate_impact", a1)), "pre_impact",
                          calculate_impact(a1.y_true, a1.y_pred))
             a2 == post_impact_args(s1.self)
             s2 == Assign(Record(s1, Call("calculate_impact", a2)), "post_impact",
                          calculate_impact(a2.y_true, a2.y_pred))
             a3 == cumulative_impact_args(s2.self)
         IN  Assign(Record(s2, Call("calculate_cumulative_impact", a3)),
                    "post_impact_cumulative", calculate_cumulative_impact(a3.impact))

PrePostFitResults(obj) ==
    [datapre |-> obj.datapre, datapost |-> obj.datapost,
     pre_y |-> obj.pre_y, post_y |-> obj.post_y,
     pre_pred |-> obj.pre_pred, post_pred |-> obj.post_pred,
     pre_impact |-> obj.pre_impact, post_impact |-> obj.post_impact,
     post_impact_cumulative |-> obj.post_impact_cumulative,
     treatment_time |-> obj.treatment_time, score |-> obj.score]

PrePostFit_results(s) ==
    IF Raised(s) THEN s ELSE Assign(s, "results", PrePostFitResults(s.self))

PrePostFit_init(args, w) ==
    LET s1 == ExperimentalDesign_init(NewFrame(args.cls, args.model), args.model)
        s2 == PrePostFit_input_validation(s1, args.data, args.treatment_time)
        s3 == PrePostFit_split(s2, args.data, args.treatment_time)
        s4 == PrePostFit_design_pre(s3, args.formula)
        s5 == PrePostFit_design_post(s4)
        s6 == PrePostFit_fit(s5, w)
        s7 == PrePostFit_score(s6)
        s8 == PrePostFit_predict(s7)
        s9 == PrePostFit_impact(s8)
    IN  PrePostFit_results(s9)

----------------------------------------------------------------------------
(* Specification of the PrePostFit family: a constructor call on arbitrary *)
(* small inputs.                                                           *)

FitClasses == {"InterruptedTimeSeries", "SyntheticControl"}

FitModelKinds == {"NoneType", "pymc", "sklearn"}

FitRows == [index : IndexVals, y : YVals, g : GVals]

FitFormulas ==
    {[text |-> "y ~ 1 + C(g)", outcome |-> "y",
      terms |-> <<Term("intercept", "", ""), Term("cat", "g", "")>>],
     [text |-> "y ~ 1 + g", outcome |-> "y",
      terms |-> <<Term("intercept", "", ""), Term("num", "g", "")>>]}

TreatmentTimes ==
    [kind : {"int"}, v : IndexVals \cup {2}] \cup {[kind |-> "Timestamp", v |-> 0]}

FitInit ==
    /\ inp \in [cls : FitClasses,
                data : SeqsUpTo(FitRows, MaxRows),
                treatment_time : TreatmentTimes,
                formula : FitFormulas,
                model : {NewModel(k) : k \in FitModelKinds}]
    /\ self = NewObject(inp.cls)
    /\ model = inp.model
    /\ calls = <<>>
    /\ loc = <<>>
    /\ err = NoError
    /\ out = <<>>
    /\ ret = None
    /\ exposed = FALSE
    /\ pc = "new"

\* the caller evaluates cls(data, treatment_time, formula, model)
Return(s) ==
    /\ self' = s.self
    /\ model' = s.model
    /\ calls' = s.calls
    /\ loc' = s.loc
    /\ err' = s.err
    /\ exposed' = ~Raised(s)
    /\ pc' = IF Raised(s) THEN "failed" ELSE "constructed"

ConstructPrePostFit ==
    /\ pc = "new"
    /\ \E w \in CoefVals : Return(PrePostFit_init(inp, w))
    /\ UNCHANGED <<inp, out, ret>>

FitNext == ConstructPrePostFit

SpecFit == FitInit /\ [][FitNext]_vars

----------------------------------------------------------------------------
(* PrePostNEGD.__init__, statement by statement. *)

GridPoints == 200

\* np.linspace(start, stop, num), in units of 1/(num - 1): start plus a
\* multiple of the step (stop - start)/(num - 1), the last point set to stop
linspace(start, stop, num) ==
    [i \in 1..num |->
        IF i = num THEN stop * (num - 1)
        ELSE start * (num - 1) + (i - 1) * (stop - start)]

\* np.min / np.max of a column
ColumnMin(data, var) ==
    CHOOSE m \in {data[i][var] : i \in DOMAIN data} :
        \A i \in DOMAIN data : m <= data[i][var]

ColumnMax(data, var) ==
    CHOOSE m \in {data[i][var] : i \in DOMAIN data} :
        \A i \in DOMAIN data : m >= data[i][var]

\* utils._is_variable_dummy_coded: exactly the two values 0 and 1
is_variable_dummy_coded(data, var) == {data[i][var] : i \in DOMAIN data} = {0, 1}

PrePostNEGD_input_validation(s) ==
    IF ~is_variable_dummy_coded(s.self.data, s.self.group_variable_name)
    THEN Raise(s, "DataException")
    ELSE s

PrePostNEGD_attrs(s, args) ==
    IF Raised(s) THEN s
    ELSE LET s1 == Assign(s, "data", args.data)
             s2 == Assign(s1, "expt_type", "Pretest/posttest Nonequivalent Group Design")
             s3 == Assign(s2, "formula", args.formula)
             s4 == Assign(s3, "group_variable_name", args.group_variable_name)
             s5 == Assign(s4, "pretreatment_variable_name",
                          args.pretreatment_variable_name)
         IN  PrePostNEGD_input_validation(s5)

\* y, X = dmatrices(formula, self.data) and the attributes taken from them
PrePostNEGD_design(s) ==
    IF Raised(s) THEN s
    ELSE LET d  == dmatrices(s.self.formula, s.self.data)
             s1 == Assign(s, "y_design_info", d.y.design_info)
             s2 == Assign(s1, "x_design_info", d.X.design_info)
             s3 == Assign(s2, "labels", column_names(d.X.design_info))
             s4 == Assign(s3, "y", d.y.matrix)
             s5 == Assign(s4, "X", d.X.matrix)
         IN  Assign(s5, "outcome_variable_name", column_names(d.y.design_info)[1])

\* variant: as in PrePostFit, a model that is not Bayesian is fitted
\* without coords
PrePostNEGD_fit_any(s, w) ==
    IF Raised(s) THEN s
    ELSE LET a == [X |-> s.self.X, y |-> s.self.y,
                   coords |-> IF IsBayesian(s.model)
                              THEN Coords(s.self.labels, arange(Len(s.self.X)))
                              ELSE NoCoords]
         IN  [Record(s, Call("fit", a)) EXCEPT
                 !.model = model_fit(s.model, a.X, a.coords, w)]

\* variant: the model is fitted before its type is looked at
PrePostNEGD_fit_first(s, w) ==
    IF Raised(s) THEN s
    ELSE LET COORDS == Coords(s.self.labels, arange(Len(s.self.X)))
             a  == [X |-> s.self.X, y |-> s.self.y, coords |-> COORDS]
             s1 == [Record(s, Call("fit", a)) EXCEPT
                       !.model = model_fit(s.model, a.X, a.coords, w)]
         IN  IF IsBayesian(s.model) THEN s1
             ELSE IF IsScikitLearn(s.model)
                  THEN Raise(s1, "NotImplementedError: Not implemented for OLS model")
                  ELSE Raise(s1, "ValueError: Model type not recognized")

\* the isinstance dispatch on self.model
PrePostNEGD_fit(s, w) ==
    IF Raised(s) THEN s
    ELSE IF IsBayesian(s.model)
         THEN LET COORDS == Coords(s.self.labels, arange(Len(s.self.X)))
                  a == [X |-> s.self.X, y |-> s.self.y, coords |-> COORDS]
              IN  [Record(s, Call("fit", a)) EXCEPT
                      !.model = model_fit(s.model, a.X, a.coords, w)]
         ELSE IF IsScikitLearn(s.model)
              THEN Raise(s, "NotImplementedError: Not implemented for OLS model")
              ELSE Raise(s, "ValueError: Model type not recognized")

\* variant: one grid point short
pred_xi_short(obj) ==
    linspace(ColumnMin(obj.data, obj.pretreatment_variable_name),
             ColumnMax(obj.data, obj.pretreatment_variable_name),
             GridPoints - 1)

\* self.pred_xi
pred_xi_of(obj) ==
    linspace(ColumnMin(obj.data, obj.pretreatment_variable_name),
             ColumnMax(obj.data, obj.pretreatment_variable_name),
             GridPoints)

PrePostNEGD_grid(s) ==
    IF Raised(s) THEN s ELSE Assign(s, "pred_xi", pred_xi_of(s.self))

\* the frame {pretreatment: pred_xi, group: np.zeros(pred_xi.shape)}
x_pred_untreated_of(obj) ==
    [i \in DOMAIN obj.pred_xi |->
        (obj.pretreatment_variable_name :> obj.pred_xi[i])
            @@ (obj.group_variable_name :> 0 * (GridPoints - 1))]

\* the frame {pretreatment: pred_xi, group: np.ones(pred_xi.shape)}
x_pred_treated_of(obj) ==
    [i \in DOMAIN obj.pred_xi |->
        (obj.pretreatment_variable_name :> obj.pred_xi[i])
            @@ (obj.group_variable_name :> 1 * (GridPoints - 1))]

\* (new_x,) = build_design_matrices([self._x_design_info], x_pred)
grid_matrix(obj, x_pred) ==
    build_design_matrix(obj.x_design_info, x_pred, GridPoints - 1)

PrePostNEGD_predict(s, x_pred, frame_name, pred_name) ==
    IF Raised(s) THEN s
    ELSE LET new_x == grid_matrix(s.self, x_pred)
         IN  IF ~new_x.ok THEN Raise(s, "PatsyError")
             ELSE LET s1 == Local(Local(s, frame_name, x_pred),
                                  frame_name \o "_columns",
                                  column_names(new_x.design_info))
                      s2 == Record(s1, Call("predict", [X |-> new_x.matrix]))
                  IN  Assign(s2, pred_name, model_predict(s2.model, new_x.matrix))

\* variant: interaction labels are not skipped
RECURSIVE first_match_any(_, _, _)
first_match_any(labels, name, k) ==
    IF k > Len(labels) THEN 0
    ELSE IF StrIn(name, labels[k]) THEN k
    ELSE first_match_any(labels, name, k + 1)

\* _get_treatment_effect_coeff: the first label that holds the group
\* variable's name and no ":"; the position 0 stands for falling off the loop
RECURSIVE first_match(_, _, _)
first_match(labels, name, k) ==
    IF k > Len(labels) THEN 0
    ELSE IF StrIn(name, labels[k]) /\ ~StrIn(":", labels[k]) THEN k
    ELSE first_match(labels, name, k + 1)

get_treatment_effect_coeff(obj) ==
    LET k == first_match(obj.labels, obj.group_variable_name, 1)
    IN  IF k = 0
        THEN [raised |-> TRUE, value |-> None,
              err |-> "NameError: Unable to find coefficient name for the treatment effect"]
        ELSE [raised |-> FALSE, value |-> obj.labels[k], err |-> NoError]

\* posterior["beta"].sel({"coeffs": label})
sel_coeff(idata, label) ==
    LET j == CHOOSE j \in DOMAIN idata.coeffs : idata.coeffs[j] = label
    IN  [coeffs |-> label, draws |-> idata.beta[j]]

PrePostNEGD_causal_impact(s) ==
    IF Raised(s) THEN s
    ELSE LET r == get_treatment_effect_coeff(s.self)
         IN  IF r.raised THEN Raise(s, r.err)
             ELSE Assign(s, "causal_impact", sel_coeff(s.model.idata, r.value))

PrePostNEGD_init(args, w) ==
    LET s1 == ExperimentalDesign_init(NewFrame("PrePostNEGD", args.model), args.model)
        s2 == PrePostNEGD_attrs(s1, args)
        s3 == PrePostNEGD_design(s2)
        s4 == PrePostNEGD_fit(s3, w)
        s5 == PrePostNEGD_grid(s4)
        s6 == IF Raised(s5) THEN s5
              ELSE PrePostNEGD_predict(s5, x_pred_untreated_of(s5.self),
                                       "x_pred_untreated", "pred_untreated")
        s7 == IF Raised(s6) THEN s6
              ELSE PrePostNEGD_predict(s6, x_pred_treated_of(s6.self),
                                       "x_pred_treated", "pred_treated")
    IN  PrePostNEGD_causal_impact(s7)

----------------------------------------------------------------------------
(* PrePostNEGD.summary *)

RECURSIVE Repeat(_, _)
Repeat(c, n) == IF n <= 0 THEN "" ELSE c \o Repeat(c, n - 1)

\* f"{text:=^80}": centred in 80 columns, the odd pad character on the right
Centre(text, width, fill) ==
    LET pad == width - Len(text)
    IN  IF pad <= 0 THEN text
        ELSE Repeat(fill, pad \div 2) \o text \o Repeat(fill, pad - pad \div 2)

\* utils.round_num on the whole numbers of this model: every number of
\* decimals, and no rounding at all, leave them as they are
round_num(n, round_to) == ToString(n)

Mean(draws) == SumSeq(draws) \div Len(draws)

\* the q-quantile of the draws; of a single draw, that draw
Quantile(draws, q) == SortedSeq(Range(draws))[1]

causal_impact_summary_stat(obj, round_to) ==
    LET lo == Quantile(obj.causal_impact.draws, 3)
        hi == Quantile(obj.causal_impact.draws, 97)
        ci == "$CI_{94%}$" \o "[" \o round_num(lo, round_to) \o ", "
                  \o round_num(hi, round_to) \o "]"
        causal_impact == round_num(Mean(obj.causal_impact.draws), round_to) \o ", "
    IN  "Causal impact = " \o causal_impact \o ci

\* summary prints four times and then evaluates self.print_coefficients
PrePostNEGD_summary(obj, m, round_to) ==
    LET printed == <<Centre(GetAttr(obj, "expt_type"), 80, "="),
                     "Formula: " \o obj.formula.text,
                     "",
                     "Results:",
                     causal_impact_summary_stat(obj, round_to)>>
    IN  IF ~HasAttr(obj, "print_coefficients")
        THEN [out |-> printed,
              err |-> "AttributeError: 'PrePostNEGD' object has no attribute 'print_coefficients'",
              calls |-> <<>>]
        ELSE [out |-> printed \o <<"Model coefficients:">>,
              err |-> NoError,
              calls |-> <<Call("print_coefficients",
                               [labels |-> obj.labels, round_to |-> round_to])>>]

----------------------------------------------------------------------------
(* Specification of PrePostNEGD: a constructor call on arbitrary small     *)
(* inputs, then summary on the instance when there is one.                 *)

NEGDMaxRows == 2

GroupVals == {0, 1, 2}
PreVals == {0, 1, 2}

NEGDRows == [group : GroupVals, pre : PreVals, post : YVals]

NEGDModelKinds == {"NoneType", "pymc", "sklearn", "other"}

NEGDFormulas ==
    {[text |-> "post ~ 1 + C(group) + pre", outcome |-> "post",
      terms |-> <<Term("intercept", "", ""), Term("cat", "group", ""),
                  Term("num", "pre", "")>>],
     [text |-> "post ~ 1 + pre", outcome |-> "post",
      terms |-> <<Term("intercept", "", ""), Term("num", "pre", "")>>],
     [text |-> "post ~ 1 + pre + C(group):pre", outcome |-> "post",
      terms |-> <<Term("intercept", "", ""), Term("num", "pre", ""),
                  Term("cat:num", "group", "pre")>>]}

RoundTo == {"None", "1"}

NEGDInit ==
    /\ inp \in [cls : {"PrePostNEGD"},
                data : SeqsUpTo(NEGDRows, NEGDMaxRows),
                formula : NEGDFormulas,
                group_variable_name : {"group"},
                pretreatment_variable_name : {"pre"},
                model : {NewModel(k) : k \in NEGDModelKinds}]
    /\ self = NewObject(inp.cls)
    /\ model = inp.model
    /\ calls = <<>>
    /\ loc = <<>>
    /\ err = NoError
    /\ out = <<>>
    /\ ret = None
    /\ exposed = FALSE
    /\ pc = "new"

ConstructPrePostNEGD ==
    /\ pc = "new"
    /\ \E w \in CoefVals : Return(PrePostNEGD_init(inp, w))
    /\ UNCHANGED <<inp, out, ret>>

Summary ==
    /\ pc = "constructed"
    /\ exposed
    /\ \E round_to \in RoundTo :
           LET r == PrePostNEGD_summary(self, model, round_to)
           IN  /\ out' = out \o r.out
               /\ err' = r.err
               /\ calls' = calls \o r.calls
               /\ ret' = None
               /\ pc' = IF r.err = NoError THEN "summary_returned" ELSE "summary_raised"
    /\ UNCHANGED <<inp, self, model, loc, exposed>>

NEGDNext == ConstructPrePostNEGD \/ Summary

SpecNEGD == NEGDInit /\ [][NEGDNext]_vars

----------------------------------------------------------------------------
(* Specification of the coefficient lookup: _get_treatment_effect_coeff    *)
(* called on an instance with arbitrary labels.                            *)

LabelPool ==
    {"Intercept", "pre", "group", "C(group)[T.1]", "C(group)[T.2]",
     "C(group)[T.1]:pre"}

GroupNames == {"group", "pre"}

CoeffInit ==
    /\ inp \in [labels : SeqsUpTo(LabelPool, MaxLabels),
                group_variable_name : GroupNames]
    /\ self = SetAttr(SetAttr(NewObject("PrePostNEGD"), "labels", inp.labels),
                      "group_variable_name", inp.group_variable_name)
    /\ model = NewModel("pymc")
    /\ calls = <<>>
    /\ loc = <<>>
    /\ err = NoError
    /\ out = <<>>
    /\ ret = None
    /\ exposed = TRUE
    /\ pc = "constructed"

GetTreatmentEffectCoeff ==
    /\ pc = "constructed"
    /\ LET r == get_treatment_effect_coeff(self)
       IN  /\ ret' = r.value
           /\ err' = r.err
           /\ pc' = IF r.raised THEN "lookup_raised" ELSE "lookup_returned"
    /\ UNCHANGED <<inp, self, model, calls, loc, out, exposed>>

CoeffNext == GetTreatmentEffectCoeff

SpecCoeff == CoeffInit /\ [][CoeffNext]_vars

----------------------------------------------------------------------------
(* Properties of the PrePostFit family (checked under SpecFit).            *)

Count(q, r) == Cardinality({i \in DOMAIN q : q[i] = r})

HasSplit == "datapost" \in DOMAIN self

\* C1: once the data is split, datapre and datapost partition it: every row
\* occurs in data as often as in datapre and datapost together, every
\* datapre row lies before treatment_time and every datapost row at or
\* after it, and both keep the rows in data's order.
C1_Partition ==
    HasSplit =>
        /\ \A r \in FitRows :
               Count(inp.data, r) = Count(self.datapre, r) + Count(self.datapost, r)
        /\ Len(inp.data) = Len(self.datapre) + Len(self.datapost)
        /\ \A i \in DOMAIN self.datapre :
               self.datapre[i].index < inp.treatment_time.v
        /\ \A i \in DOMAIN self.datapost :
               self.datapost[i].index >= inp.treatment_time.v
        /\ \A i \in DOMAIN self.datapre : \A j \in DOMAIN self.datapost :
               self.datapre[i].index < inp.treatment_time.v
               /\ inp.treatment_time.v <= self.datapost[j].index

C1_Witness ==
    /\ pc = "constructed"
    /\ self.datapre # <<>>
    /\ \E j \in DOMAIN self.datapost :
           self.datapost[j].index = inp.treatment_time.v
    /\ \E i \in DOMAIN inp.data : \E j \in DOMAIN inp.data :
           i < j /\ inp.data[i].index > inp.data[j].index

\* C5: an InterruptedTimeSeries or SyntheticControl instance carries its
\* variant's own label as expt_type after construction.
C5_VariantLabel ==
    (pc = "constructed" /\ inp.cls \in {"InterruptedTimeSeries", "SyntheticControl"})
        => GetAttr(self, "expt_type") = ClassDict(inp.cls).expt_type

\* C6: post_impact is post_y - post_pred elementwise and
\* post_impact_cumulative is its running sum in index order, of the same
\* length, computed from post_impact and not from pre_impact.
C6_CumulativeImpact ==
    pc = "constructed" =>
        LET imp == self.post_impact
            cum == self.post_impact_cumulative
        IN  /\ Len(imp) = Len(self.datapost)
            /\ \A k \in DOMAIN imp : imp[k] = self.post_y[k][1] - self.post_pred[k]
            /\ Len(cum) = Len(imp)
            /\ \A i \in DOMAIN cum :
                   cum[i] = (IF i = 1 THEN 0 ELSE cum[i - 1]) + imp[i]
            /\ calls[Len(calls)] =
                   Call("calculate_cumulative_impact", [impact |-> imp])

C6_Witness ==
    /\ pc = "constructed"
    /\ Len(self.post_impact) >= 2
    /\ self.post_impact[1] # 0
    /\ self.post_impact[2] # 0
    /\ self.post_impact_cumulative[2] # self.post_impact[2]
    /\ self.pre_impact # self.post_impact

\* C7: post_X is encoded with the design info recorded for datapre: its
\* columns are the labels of pre_X, in the same order, and every row of
\* post_X and of pre_X has one entry per label; datapost is rejected only
\* when it holds a categorical level that datapre does not.
C7_PostDesignReused ==
    /\ pc = "constructed" =>
           /\ loc.new_x_columns = self.labels
           /\ Len(self.post_X) = Len(self.datapost)
           /\ \A i \in DOMAIN self.post_X : Len(self.post_X[i]) = Len(self.labels)
           /\ \A i \in DOMAIN self.pre_X : Len(self.pre_X[i]) = Len(self.labels)
           /\ \A i \in DOMAIN self.post_X :
                  self.post_X[i] = DesignRow(self.x_design_info, self.datapost[i], 1)
    /\ (pc = "failed" /\ err = "PatsyError") =>
           \E j \in DOMAIN self.datapost : \A i \in DOMAIN self.datapre :
               self.datapost[j].g # self.datapre[i].g

C7_Witness ==
    /\ pc = "constructed"
    /\ Len(self.labels) = 2
    /\ inp.formula.text = "y ~ 1 + C(g)"
    /\ self.datapost # <<>>
    /\ \A j \in DOMAIN self.datapost : self.datapost[j].g = 1

\* C9: a successful construction calls fit exactly once, first, with pre_X
\* and pre_y (one row per datapre row), then score, predict (twice),
\* calculate_impact (twice) and calculate_cumulative_impact; a Bayesian
\* model gets coords with one coeffs entry per covariate column and
\* obs_indx = 0..len(datapre)-1, any other model gets no coords.
C9_FitOnceOnPreData ==
    pc = "constructed" =>
        /\ [i \in DOMAIN calls |-> calls[i].op] =
               <<"fit", "score", "predict", "predict", "calculate_impact",
                 "calculate_impact", "calculate_cumulative_impact">>
        /\ LET a == calls[1].args
           IN  /\ a.X = self.pre_X
               /\ a.y = self.pre_y
               /\ Len(a.X) = Len(self.datapre)
               /\ Len(a.y) = Len(self.datapre)
               /\ \A i \in DOMAIN a.X :
                      /\ a.X[i] = DesignRow(self.x_design_info, self.datapre[i], 1)
                      /\ a.y[i] = <<self.datapre[i].y>>
               /\ IF inp.model.kind = "pymc"
                  THEN /\ a.coords.given
                       /\ a.coords.coeffs = self.labels
                       /\ \A i \in DOMAIN a.X :
                              Len(a.coords.coeffs) = Len(a.X[i])
                       /\ Len(a.coords.obs_indx) = Len(self.datapre)
                       /\ \A i \in DOMAIN a.coords.obs_indx :
                              a.coords.obs_indx[i] = i - 1
                  ELSE a.coords = NoCoords

C9_Witness ==
    /\ pc = "constructed"
    /\ inp.model.kind = "pymc"
    /\ Len(self.datapre) = 2
    /\ self.datapost # <<>>
    /\ self.post_X # self.pre_X

----------------------------------------------------------------------------
(* Properties of the coefficient lookup (checked under SpecCoeff).         *)

Qualifies(label) == StrIn(inp.group_variable_name, label) /\ ~StrIn(":", label)

\* C2: the lookup returns the first label, in label order, that contains
\* group_variable_name and no ":"; it raises the lookup error exactly when
\* no label qualifies; the labels Intercept, C(group)[T.1], pre with the
\* name group give C(group)[T.1].
C2_FirstPlainGroupLabel ==
    /\ pc = "lookup_returned" =>
           \E k \in DOMAIN inp.labels :
               /\ ret = inp.labels[k]
               /\ Qualifies(inp.labels[k])
               /\ \A j \in 1..(k - 1) : ~Qualifies(inp.labels[j])
    /\ pc = "lookup_raised" =>
           /\ \A k \in DOMAIN inp.labels : ~Qualifies(inp.labels[k])
           /\ err = "NameError: Unable to find coefficient name for the treatment effect"
    /\ (/\ pc # "constructed"
        /\ inp.labels = <<"Intercept", "C(group)[T.1]", "pre">>
        /\ inp.group_variable_name = "group")
           => pc = "lookup_returned" /\ ret = "C(group)[T.1]"

C2_Witness ==
    /\ pc = "lookup_returned"
    /\ inp.group_variable_name = "group"
    /\ inp.labels = <<"C(group)[T.1]:pre", "C(group)[T.2]", "group">>
    /\ ret = "C(group)[T.2]"

----------------------------------------------------------------------------
(* Properties of PrePostNEGD (checked under SpecNEGD).                     *)

GroupIsDummyCoded ==
    /\ \E i \in DOMAIN inp.data : inp.data[i].group = 0
    /\ \E i \in DOMAIN inp.data : inp.data[i].group = 1
    /\ \A i \in DOMAIN inp.data : inp.data[i].group \in {0, 1}

FitCalls == {i \in DOMAIN calls : calls[i].op = "fit"}

\* C3: with a group column that passes validation, the constructor
\* dispatches on the model: a Bayesian model is fitted once, on the design
\* matrix of the full dataset, with coords naming one coefficient per label
\* and the observations 0..n-1; a scikit-learn model fails with
\* NotImplementedError and any other model with ValueError, neither being
\* fitted; no model at all fails with ValueError as well.
C3_ModelDispatch ==
    /\ (pc # "new" /\ GroupIsDummyCoded /\ inp.model.kind = "pymc") =>
           /\ FitCalls = {1}
           /\ model.fitted
           /\ LET a == calls[1].args
              IN  /\ Len(a.X) = Len(inp.data)
                  /\ Len(a.y) = Len(inp.data)
                  /\ \A i \in DOMAIN a.X :
                         /\ a.X[i] = DesignRow(self.x_design_info, inp.data[i], 1)
                         /\ a.y[i] = <<inp.data[i].post>>
                         /\ Len(a.coords.coeffs) = Len(a.X[i])
                  /\ a.coords.given
                  /\ a.coords.coeffs = self.labels
                  /\ Len(a.coords.obs_indx) = Len(inp.data)
                  /\ \A i \in DOMAIN a.coords.obs_indx : a.coords.obs_indx[i] = i - 1
    /\ (pc # "new" /\ GroupIsDummyCoded /\ inp.model.kind = "sklearn") =>
           /\ pc = "failed"
           /\ err = "NotImplementedError: Not implemented for OLS model"
           /\ calls = <<>> /\ ~model.fitted
    /\ (pc # "new" /\ GroupIsDummyCoded /\ inp.model.kind = "other") =>
           /\ pc = "failed"
           /\ err = "ValueError: Model type not recognized"
           /\ calls = <<>> /\ ~model.fitted
    /\ (pc # "new" /\ inp.model.kind = "NoneType") =>
           /\ pc = "failed"
           /\ err = "ValueError: fitting_model not set or passed."
           /\ calls = <<>> /\ ~model.fitted

C3_Witness ==
    /\ pc = "failed"
    /\ inp.model.kind = "sklearn"
    /\ err = "NotImplementedError: Not implemented for OLS model"
    /\ "labels" \in DOMAIN self

\* C4: summary(round_to) on a constructed PrePostNEGD returns without
\* raising, having printed the 80-column title, the formula, the Results
\* header, the causal-impact line and then the model coefficients.
C4_SummaryCompletes ==
    pc \in {"summary_returned", "summary_raised"} =>
        /\ pc = "summary_returned"
        /\ err = NoError
        /\ Len(out) >= 6
        /\ Len(out[1]) = 80
        /\ out[2] = "Formula: " \o inp.formula.text
        /\ out[4] = "Results:"
        /\ out[6] = "Model coefficients:"

HasGrid == "x_pred_treated" \in DOMAIN loc

\* C8: pred_xi has exactly 200 points, runs from the smallest to the largest
\* observed pretreatment value with the constant spacing (max - min)/199
\* (grid values are held in units of 1/199); the untreated frame pairs
\* every grid point with group 0 and the treated frame with group 1, and
\* both are encoded with the design info of the fit (the columns are the
\* labels).
C8_PredictionGrids ==
    HasGrid =>
        LET xi == self.pred_xi
            un == loc.x_pred_untreated
            tr == loc.x_pred_treated
        IN  /\ Len(xi) = 200
            /\ \E i \in DOMAIN inp.data : xi[1] = inp.data[i].pre * 199
            /\ \A i \in DOMAIN inp.data : xi[1] <= inp.data[i].pre * 199
            /\ \E i \in DOMAIN inp.data : xi[200] = inp.data[i].pre * 199
            /\ \A i \in DOMAIN inp.data : xi[200] >= inp.data[i].pre * 199
            /\ \A k \in 1..199 : (xi[k + 1] - xi[k]) * 199 = xi[200] - xi[1]
            /\ Len(un) = 200 /\ Len(tr) = 200
            /\ \A k \in 1..200 :
                   /\ un[k].pre = xi[k] /\ un[k].group = 0
                   /\ tr[k].pre = xi[k] /\ tr[k].group = 199
            /\ loc.x_pred_untreated_columns = self.labels
            /\ loc.x_pred_treated_columns = self.labels
            /\ calls[2].op = "predict" /\ calls[3].op = "predict"
            /\ \A k \in 1..200 :
                   /\ calls[2].args.X[k] = DesignRow(self.x_design_info, un[k], 199)
                   /\ calls[3].args.X[k] = DesignRow(self.x_design_info, tr[k], 199)
                   /\ Len(calls[2].args.X[k]) = Len(self.labels)
                   /\ Len(calls[3].args.X[k]) = Len(self.labels)

C8_Witness ==
    /\ pc = "constructed"
    /\ Len(inp.data) = 2
    /\ inp.data[1].pre = 2 /\ inp.data[2].pre = 1
    /\ self.pred_xi[2] = 200
    /\ calls[2].args.X # calls[3].args.X

IsLookupError(e) ==
    e = "NameError: Unable to find coefficient name for the treatment effect"

\* C10 as claimed: every failed construction has left the model unfitted,
\* without a call to fit or predict, and exposes no instance.
C10_AllErrorsBeforeFit ==
    pc = "failed" => (calls = <<>> /\ ~model.fitted /\ ~exposed)

\* C10 as amended: a failed construction exposes no instance; the
\* data-validation, missing-capability and configuration errors are raised
\* before any call to fit or predict and leave the model unfitted, while
\* the lookup error for the treatment-effect coefficient is raised after
\* fit and both predict calls and leaves the model fitted.
C10_ErrorsBeforeFitButLookup ==
    pc = "failed" =>
        /\ ~exposed
        /\ err \in {"DataException",
                    "NotImplementedError: Not implemented for OLS model",
                    "ValueError: Model type not recognized",
                    "ValueError: fitting_model not set or passed."}
               => (calls = <<>> /\ ~model.fitted)
        /\ IsLookupError(err) =>
               /\ model.fitted
               /\ [i \in DOMAIN calls |-> calls[i].op] = <<"fit", "predict", "predict">>

C10_Witness ==
    /\ pc = "failed"
    /\ IsLookupError(err)
    /\ model.fitted
    /\ Len(calls) = 3
    /\ self.labels = <<"Intercept", "pre", "C(group)[T.1]:pre">>

====
